---- MODULE Spec2Model ----
(***************************************************************************)
(* Model of the telemetry and face-rendering core of the HT32 panel daemon *)
(*   faces/image.rs   ImageFace: single-slot, mutex-guarded image cache    *)
(*   sensors/data.rs  SystemData: bounded histories, graph auto-scale      *)
(***************************************************************************)
EXTENDS Integers, Sequences, FiniteSets, TLC

\* ------------------------------------------------------------------------
\* Image face: values
\* ------------------------------------------------------------------------

\* Render threads; the scheduler uses thread 1, thread 2 exists only in SpecConc.
Threads == {1, 2}

\* Non-empty paths the "path" option can hold.
Paths == {"a", "b"}

\* get_option() result: the option is absent, or Some(string).
NoOption == "<none>"
ConfigValues == {NoOption, ""} \cup Paths

\* What the file system holds at a path: nothing decodable, or an image.
Contents == {"missing", "wide", "tall"}

\* Pixel dimensions of the stored images.
ImageDims(c) == IF c = "wide" THEN <<16, 4>> ELSE <<2, 8>>

\* canvas.dimensions()
CanvasDims == <<8, 4>>

NoPixmap == [none |-> TRUE]
NoEntry == [none |-> TRUE]

Max2(a, b) == IF a >= b THEN a ELSE b

\* Rounded quotient n / d of non-negative integers.
RoundDiv(n, d) == (2 * n + d) \div (2 * d)

\* Integer division truncating toward zero (Rust's i32 /).
TruncDiv(n, d) == IF n >= 0 THEN n \div d ELSE -((-n) \div d)

\* img.resize(width, height, ..): fit inside the canvas, aspect ratio kept.
Resize(w, h, cw, ch) ==
    IF cw * h <= ch * w
    THEN <<cw, Max2(RoundDiv(h * cw, w), 1)>>
    ELSE <<Max2(RoundDiv(w * ch, h), 1), ch>>

\* load_image(path, cw, ch) on file contents c: None when image::open fails,
\* else the decoded image resized to fit the canvas.
load_image(c, cw, ch) ==
    IF c = "missing"
    THEN NoPixmap
    ELSE LET d == Resize(ImageDims(c)[1], ImageDims(c)[2], cw, ch)
         IN  [img |-> c, w |-> d[1], h |-> d[2]]

\* Canvas operations, as recorded in the order render issues them.
OpClear == [op |-> "clear"]
OpText(x, y, s) == [op |-> "text", x |-> x, y |-> y, text |-> s]
OpPixmap(x, y, pm) == [op |-> "pixmap", x |-> x, y |-> y, pixmap |-> pm]

PlaceholderOps ==
    <<OpText(10, 10, "No image configured."), OpText(10, 30, "Set path in settings.")>>

ErrorOps(p) == <<OpText(10, 10, "Failed to load image."), OpText(10, 30, p)>>

\* The centred blit of lines 128-130.
BlitOp(pm, cw, ch) == OpPixmap(TruncDiv(cw - pm.w, 2), TruncDiv(ch - pm.h, 2), pm)

\* ------------------------------------------------------------------------
\* State
\* ------------------------------------------------------------------------
VARIABLES
    config,      \* the "path" option of the image face, written by the control surface
    fs,          \* file contents per path
    cache,       \* ImageFace.cache: NoEntry or [path, pixmap]
    lock,        \* holder of the cache mutex, 0 when free
    pc,          \* per thread: position inside render
    path,        \* per thread: the local `path` of render
    loaded,      \* per thread: result of the load_image call of this render
    canvas,      \* per thread: canvas operations issued by this render
    loads,       \* per thread: load_image calls of this render, [path, ok]
    atLock,      \* per thread: the cache as found when the lock was taken
    prev,        \* the render before the current one (sequential ticks only)
    decoded,     \* every [path, pixmap] load_image has decoded (concurrent renders only)
    history,     \* SystemData.disk_history / net_history
    appended,    \* every value appended to history so far, in order
    stream,      \* which rate stream the sensors deliver
    lastScale,   \* the latest compute_graph_scale call: [max, scale], or NoScale
    call,        \* the latest call of a pure function: [fn, its arguments, result], or NoCall
    temp_path,   \* TemperatureSensor.temp_path: TRUE when a sensor file was detected
    temp_file,   \* what the sensor file holds now
    last_temp,   \* TemperatureSensor.last_temp
    sample_ret   \* what the latest sample() returned, or NotSampled

imageVars == <<config, fs, cache, lock, pc, path, loaded, canvas, loads, atLock, prev, decoded>>
calcVars == <<call, temp_path, temp_file, last_temp, sample_ret>>
histVars == <<history, appended, stream, lastScale, calcVars>>
vars == <<imageVars, histVars>>

NoRender == [none |-> TRUE]

\* What is known about a render of thread t once it has returned.
RenderRecord(t) ==
    [path |-> path[t], loads |-> loads[t], canvas |-> canvas[t],
     atLock |-> atLock[t], cache |-> cache]

NoScale == [none |-> TRUE]
NoCall == [fn |-> "none"]
NoTemp == [none |-> TRUE]
NotSampled == [unsampled |-> TRUE]
Unreadable == [readable |-> FALSE]

\* No pure function called yet; TemperatureSensor without a detected file.
InitCalc ==
    /\ call = NoCall
    /\ temp_path = FALSE
    /\ temp_file = Unreadable
    /\ last_temp = NoTemp
    /\ sample_ret = NotSampled

\* SystemData::default(): empty histories.
InitHist ==
    /\ history = <<>>
    /\ appended = <<>>
    /\ stream = 0
    /\ lastScale = NoScale
    /\ InitCalc

InitImageCommon ==
    /\ config \in ConfigValues
    /\ fs \in [Paths -> Contents]
    /\ cache = NoEntry
    /\ lock = 0
    /\ path = [t \in Threads |-> ""]
    /\ loaded = [t \in Threads |-> NoPixmap]
    /\ canvas = [t \in Threads |-> <<>>]
    /\ loads = [t \in Threads |-> <<>>]
    /\ atLock = [t \in Threads |-> NoEntry]
    /\ prev = NoRender
    /\ decoded = {}

\* ImageFace::new(), one render tick at a time (thread 2 never renders).
Init ==
    /\ InitImageCommon
    /\ pc = [t \in Threads |-> IF t = 1 THEN "idle" ELSE "off"]
    /\ InitHist

\* ------------------------------------------------------------------------
\* ImageFace::render, step by step
\* ------------------------------------------------------------------------

\* Renders run one tick at a time (spec section 5): only one thread renders.
Sequential == \E u \in Threads : pc[u] = "off"

\* line 87: canvas.clear()
\* (prev remembers the preceding render; it is kept only for sequential ticks)
RenderBegin(t) ==
    /\ pc[t] = "idle"
    /\ prev' = IF canvas[t] = <<>> \/ ~Sequential THEN NoRender ELSE RenderRecord(t)
    /\ canvas' = [canvas EXCEPT ![t] = <<OpClear>>]
    /\ loads' = [loads EXCEPT ![t] = <<>>]
    /\ loaded' = [loaded EXCEPT ![t] = NoPixmap]
    /\ atLock' = [atLock EXCEPT ![t] = NoEntry]
    /\ path' = [path EXCEPT ![t] = ""]
    /\ pc' = [pc EXCEPT ![t] = "getopt"]
    /\ UNCHANGED <<config, fs, cache, lock, decoded, histVars>>

\* The path render works with, from the option as read.
PathOf(opt) == IF opt = NoOption THEN "" ELSE opt

\* lines 90-97: read the option once into the local `path`
ReadPath(t) ==
    /\ pc[t] = "getopt"
    /\ path' = [path EXCEPT ![t] = PathOf(config)]
    /\ pc' = [pc EXCEPT ![t] = IF PathOf(config) = "" THEN "placeholder" ELSE "lock"]
    /\ UNCHANGED <<config, fs, cache, lock, loaded, canvas, loads, atLock, prev, decoded, histVars>>

\* Variant of Placeholder: the empty path also empties the cache.
Placeholder_clears_cache(t) ==
    /\ pc[t] = "placeholder"
    /\ canvas' = [canvas EXCEPT ![t] = @ \o PlaceholderOps]
    /\ cache' = NoEntry
    /\ pc' = [pc EXCEPT ![t] = "idle"]
    /\ UNCHANGED <<config, fs, lock, path, loaded, loads, atLock, prev, decoded, histVars>>

\* lines 99-103: empty path, placeholder and return
Placeholder(t) ==
    /\ pc[t] = "placeholder"
    /\ canvas' = [canvas EXCEPT ![t] = @ \o PlaceholderOps]
    /\ pc' = [pc EXCEPT ![t] = "idle"]
    /\ UNCHANGED <<config, fs, cache, lock, path, loaded, loads, atLock, prev, decoded, histVars>>

\* Variant of Lock: the mutex is taken whether it is free or not.
Lock_no_wait(t) ==
    /\ pc[t] = "lock"
    /\ lock' = t
    /\ atLock' = [atLock EXCEPT ![t] = cache]
    /\ pc' = [pc EXCEPT ![t] = "check"]
    /\ UNCHANGED <<config, fs, cache, path, loaded, canvas, loads, prev, decoded, histVars>>

\* line 106: self.cache.lock()
Lock(t) ==
    /\ pc[t] = "lock"
    /\ lock = 0
    /\ lock' = t
    /\ atLock' = [atLock EXCEPT ![t] = cache]
    /\ pc' = [pc EXCEPT ![t] = "check"]
    /\ UNCHANGED <<config, fs, cache, path, loaded, canvas, loads, prev, decoded, histVars>>

\* Variants of should_reload: reload on every render; reload only when the
\* slot is empty.
should_reload_always(c, p) == TRUE
should_reload_if_empty(c, p) == c = NoEntry

\* lines 109-112
should_reload(c, p) == IF c = NoEntry THEN TRUE ELSE c.path # p

\* Variant of CheckCache: the guard is dropped before the decode.
CheckCache_unlock(t) ==
    /\ pc[t] = "check"
    /\ pc' = [pc EXCEPT ![t] = IF should_reload(cache, path[t]) THEN "load" ELSE "draw"]
    /\ lock' = IF should_reload(cache, path[t]) THEN 0 ELSE lock
    /\ UNCHANGED <<config, fs, cache, path, loaded, canvas, loads, atLock, prev, decoded, histVars>>

\* lines 109-114: decide whether to reload
CheckCache(t) ==
    /\ pc[t] = "check"
    /\ pc' = [pc EXCEPT ![t] = IF should_reload(cache, path[t]) THEN "load" ELSE "draw"]
    /\ UNCHANGED <<config, fs, cache, lock, path, loaded, canvas, loads, atLock, prev, decoded, histVars>>

\* Variant of LoadArg: the option is read again for the load.
LoadArg_reread(t) == IF config \in Paths THEN config ELSE path[t]

\* The path handed to load_image on line 115.
LoadArg(t) == path[t]

\* line 115: self.load_image(&path, cw, ch)
LoadImage(t) ==
    /\ pc[t] = "load"
    /\ LET pm == load_image(fs[LoadArg(t)], CanvasDims[1], CanvasDims[2])
       IN  /\ loaded' = [loaded EXCEPT ![t] = pm]
           /\ loads' = [loads EXCEPT ![t] = Append(@, [path |-> LoadArg(t), ok |-> pm # NoPixmap])]
           /\ decoded' = IF Sequential \/ pm = NoPixmap
                          THEN decoded
                          ELSE decoded \cup {[path |-> LoadArg(t), pixmap |-> pm]}
    /\ pc' = [pc EXCEPT ![t] = "store"]
    /\ UNCHANGED <<config, fs, cache, lock, path, canvas, atLock, prev, histVars>>

\* Variants of CacheAfterLoad: a failed load keeps the old entry; a
\* successful load does not replace an existing entry; a failed load is
\* remembered as an entry with an empty bitmap.
CacheAfterLoad_remember_failure(old, p, pm) ==
    IF pm # NoPixmap
    THEN [path |-> p, pixmap |-> pm]
    ELSE [path |-> p, pixmap |-> [img |-> "missing", w |-> 0, h |-> 0]]
CacheAfterLoad_keep_stale(old, p, pm) ==
    IF pm # NoPixmap THEN [path |-> p, pixmap |-> pm] ELSE old
CacheAfterLoad_no_replace(old, p, pm) ==
    IF pm # NoPixmap
    THEN (IF old = NoEntry THEN [path |-> p, pixmap |-> pm] ELSE old)
    ELSE NoEntry

\* lines 115-122: the new cache value after a load attempt (old is the value
\* under the lock; the code overwrites it on both branches)
CacheAfterLoad(old, p, pm) == IF pm # NoPixmap THEN [path |-> p, pixmap |-> pm] ELSE NoEntry

\* lines 115-122: replace or clear the cache entry
Store(t) ==
    /\ pc[t] = "store"
    /\ cache' = CacheAfterLoad(cache, path[t], loaded[t])
    /\ pc' = [pc EXCEPT ![t] = "draw"]
    /\ UNCHANGED <<config, fs, lock, path, loaded, canvas, loads, atLock, prev, decoded, histVars>>

\* Variant of DrawOps: the error text is drawn without the else.
DrawOps_no_else(c, p) ==
    IF c # NoEntry
    THEN <<BlitOp(c.pixmap, CanvasDims[1], CanvasDims[2])>> \o ErrorOps(p)
    ELSE ErrorOps(p)

\* lines 126-134: what is drawn for cache value c by a render working with path p
DrawOps(c, p) ==
    IF c # NoEntry
    THEN <<BlitOp(c.pixmap, CanvasDims[1], CanvasDims[2])>>
    ELSE ErrorOps(p)

\* lines 126-134: blit the cached bitmap or draw the error
Draw(t) ==
    /\ pc[t] = "draw"
    /\ canvas' = [canvas EXCEPT ![t] = @ \o DrawOps(cache, path[t])]
    /\ pc' = [pc EXCEPT ![t] = "ret"]
    /\ UNCHANGED <<config, fs, cache, lock, path, loaded, loads, atLock, prev, decoded, histVars>>

\* line 135: render returns, the MutexGuard is dropped
Return(t) ==
    /\ pc[t] = "ret"
    /\ lock' = 0
    /\ pc' = [pc EXCEPT ![t] = "idle"]
    /\ UNCHANGED <<config, fs, cache, path, loaded, canvas, loads, atLock, prev, decoded, histVars>>

\* The control surface writes the "path" option.
SetPath(v) ==
    /\ v # config
    /\ config' = v
    /\ UNCHANGED <<fs, cache, lock, pc, path, loaded, canvas, loads, atLock, prev, decoded, histVars>>

\* The file at path p is created, replaced or removed.
FsChange(p, c) ==
    /\ fs[p] # c
    /\ fs' = [fs EXCEPT ![p] = c]
    /\ UNCHANGED <<config, cache, lock, pc, path, loaded, canvas, loads, atLock, prev, decoded, histVars>>

Next ==
    \/ \E t \in Threads : RenderBegin(t)
    \/ \E t \in Threads : ReadPath(t)
    \/ \E t \in Threads : Placeholder(t)
    \/ \E t \in Threads : Lock(t)
    \/ \E t \in Threads : CheckCache(t)
    \/ \E t \in Threads : LoadImage(t)
    \/ \E t \in Threads : Store(t)
    \/ \E t \in Threads : Draw(t)
    \/ \E t \in Threads : Return(t)
    \/ \E v \in ConfigValues : SetPath(v)
    \/ \E p \in Paths, c \in Contents : FsChange(p, c)

Spec == Init /\ [][Next]_vars

\* The same face rendered from two threads (Face: Send + Sync).
InitConc ==
    /\ InitImageCommon
    /\ pc = [t \in Threads |-> "idle"]
    /\ InitHist

SpecConc == InitConc /\ [][Next]_vars

\* ------------------------------------------------------------------------
\* SystemData: bounded histories and graph auto-scale
\* ------------------------------------------------------------------------

\* Variant of HISTORY_SIZE: the window keeps one sample more.
HISTORY_SIZE_one_more == 60 + 1

\* Number of history samples to keep for graphs.
HISTORY_SIZE == 60

\* 1 MB/s minimum scale.
MIN_SCALE == 1000000

\* Sampling ticks explored.
MaxTicks == 62

\* Rate streams the sensors can deliver.
Streams == 1..4

RECURSIVE Pow10(_)
Pow10(k) == IF k = 0 THEN 1 ELSE 10 * Pow10(k - 1)

\* The combined rate sampled at tick n (whole bytes per second) on stream s:
\* a ramp, an idle system, bursts over nine decades, a decay.
Rate(s, n) ==
    CASE s = 1 -> n * 100000
      [] s = 2 -> 0
      [] s = 3 -> (IF n % 2 = 0 THEN 3 ELSE 7) * Pow10(n % 9)
      [] OTHER -> (MaxTicks + 1 - n) * 350000

\* Variant of push_history: the newest sample is dropped when the window is full.
push_history_drop_newest(h, v) ==
    IF Len(h) >= HISTORY_SIZE THEN h ELSE Append(h, v)

\* Append at the tail, evict the oldest at the head beyond the capacity.
push_history(h, v) ==
    LET a == Append(h, v)
    IN  IF Len(a) > HISTORY_SIZE THEN Tail(a) ELSE a

\* One sampling tick: the combined rate is appended to the history.
SampleTick ==
    /\ stream \in Streams
    /\ Len(appended) < MaxTicks
    /\ LET v == Rate(stream, Len(appended) + 1)
       IN  /\ history' = push_history(history, v)
           /\ appended' = Append(appended, v)
    /\ UNCHANGED <<stream, lastScale, calcVars, imageVars>>

\* history.iter().copied().fold(0.0, |a, b| a.max(b))
MaxVal(h) ==
    LET S == {h[i] : i \in 1..Len(h)} \cup {0}
    IN  CHOOSE m \in S : \A x \in S : x <= m

\* max_val.log10().floor() for max_val >= 1
RECURSIVE FloorLog10(_)
FloorLog10(v) == IF v < 10 THEN 0 ELSE 1 + FloorLog10(v \div 10)

\* Variant of Multiplier: the steps are compared strictly.
Multiplier_strict(max_val, magnitude) ==
    IF max_val < magnitude THEN 1
    ELSE IF max_val < 2 * magnitude THEN 2
    ELSE IF max_val < 5 * magnitude THEN 5
    ELSE 10

\* Variant of Multiplier: the 2x and 5x steps are exchanged.
Multiplier_swapped(max_val, magnitude) ==
    IF max_val <= magnitude THEN 1
    ELSE IF max_val <= 2 * magnitude THEN 5
    ELSE IF max_val <= 5 * magnitude THEN 2
    ELSE 10

\* lines 232-242: normalized = max_val / magnitude snapped to 1, 2, 5 or 10
Multiplier(max_val, magnitude) ==
    IF max_val <= magnitude THEN 1
    ELSE IF max_val <= 2 * magnitude THEN 2
    ELSE IF max_val <= 5 * magnitude THEN 5
    ELSE 10

\* SystemData::compute_graph_scale
compute_graph_scale(h) ==
    LET max_val == MaxVal(h)
    IN  IF max_val <= MIN_SCALE
        THEN MIN_SCALE
        ELSE LET magnitude == Pow10(FloorLog10(max_val))
             IN  Max2(magnitude * Multiplier(max_val, magnitude), MIN_SCALE)

\* A face asks for the graph scale of the current history.
ComputeScale ==
    /\ stream \in Streams
    /\ lastScale' = [max |-> MaxVal(history), scale |-> compute_graph_scale(history)]
    /\ lastScale' # lastScale
    /\ UNCHANGED <<history, appended, stream, calcVars, imageVars>>

\* A fresh SystemData fed by one of the rate streams; the image face is idle.
InitHistory ==
    /\ history = <<>>
    /\ appended = <<>>
    /\ stream \in Streams
    /\ lastScale = NoScale
    /\ InitCalc
    /\ InitImageCommon
    /\ config = NoOption
    /\ fs = [p \in Paths |-> "missing"]
    /\ pc = [t \in Threads |-> "off"]

NextHistory == SampleTick \/ ComputeScale

SpecHistory == InitHistory /\ [][NextHistory]_vars

\* ------------------------------------------------------------------------
\* Properties of the histories and the graph scale
\* ------------------------------------------------------------------------

Min2(a, b) == IF a <= b THEN a ELSE b

\* C9: bounded FIFO history. After any number n of appends the history holds
\* at most 60 values and equals the last min(n, 60) appended values in
\* insertion order; after 61 appends the first appended value has been evicted.
C9_BoundedFifo ==
    LET n == Len(appended)
        k == Min2(n, 60)
    IN  /\ Len(history) <= 60
        /\ Len(history) = k
        /\ history = SubSeq(appended, n - k + 1, n)
        /\ n = 61 => history[1] = appended[2]

\* 61 appends of distinct values: the first one is gone.
C9_Witness ==
    /\ Len(appended) = 61
    /\ Len(history) = 60
    /\ \A i \in 1..Len(history) : history[i] # appended[1]
    /\ history[60] = appended[61]

\* Maximum samples the computed scale is compared against.
RefMaxima ==
    {0, 1, 999999, 1000000, 1000001, 1500000, 2000000, 2000001, 3200000,
     5000000, 5000001, 9999999, 10000000, 10000001, 20000000, 50000001,
     99999999, 100000000, 700000000}

\* C10: compute_graph_scale is monotonic non-decreasing in the maximum sample
\* and never below 1,000,000: the scale computed for the current history is at
\* least 1,000,000, at least the scale of every smaller reference maximum and
\* at most the scale of every larger one; an empty history gives 1,000,000.
C10_ScaleMonotonic ==
    /\ compute_graph_scale(<<>>) = 1000000
    /\ lastScale # NoScale =>
         /\ lastScale.scale >= 1000000
         /\ lastScale.max <= 1000000 => lastScale.scale = 1000000
         /\ \A r \in RefMaxima :
              /\ r <= lastScale.max => compute_graph_scale(<<r>>) <= lastScale.scale
              /\ r >= lastScale.max => compute_graph_scale(<<r>>) >= lastScale.scale
              /\ compute_graph_scale(<<r>>) >= 1000000

\* A scale above the floor computed from a full window whose maximum is no
\* longer the newest sample.
C10_Witness ==
    /\ lastScale # NoScale
    /\ lastScale.scale > 1000000
    /\ Len(history) = 60
    /\ lastScale.max = MaxVal(history)
    /\ history[60] < lastScale.max

\* The steps a scale is snapped to.
NiceSteps == {1, 2, 5, 10}

\* C17: for a history whose maximum sample max exceeds 1,000,000 the scale is
\* magnitude x m, magnitude being the largest power of ten <= max and m the
\* smallest of 1, 2, 5, 10 with m x magnitude >= max; so the scale is >= max
\* and < 10 x max, and max = 3,200,000 gives 5,000,000.
C17_ScaleSnapping ==
    (lastScale # NoScale /\ lastScale.max > 1000000) =>
        /\ \E k \in 0..8, m \in NiceSteps :
             /\ Pow10(k) <= lastScale.max
             /\ lastScale.max < Pow10(k + 1)
             /\ m * Pow10(k) >= lastScale.max
             /\ \A n \in NiceSteps : n * Pow10(k) >= lastScale.max => m <= n
             /\ lastScale.scale = Pow10(k) * m
        /\ lastScale.scale >= lastScale.max
        /\ lastScale.scale % 10 = 0
        /\ lastScale.scale \div 10 < lastScale.max
        /\ lastScale.max = 3200000 => lastScale.scale = 5000000

\* The scale asked for while the largest sample of the window is 3,200,000.
C17_Witness ==
    /\ lastScale # NoScale
    /\ lastScale.max = 3200000
    /\ lastScale.scale = 5000000
    /\ MaxVal(history) = 3200000

\* ------------------------------------------------------------------------
\* Pure functions: strings
\* ------------------------------------------------------------------------

\* Strings are sequences of pieces; a piece is one character unless it is a
\* whole entry of a fixed name table.
UpperCase == <<"A", "B", "C", "D", "E", "F", "G", "H", "I", "J", "K", "L", "M",
               "N", "O", "P", "Q", "R", "S", "T", "U", "V", "W", "X", "Y", "Z">>
LowerCase == <<"a", "b", "c", "d", "e", "f", "g", "h", "i", "j", "k", "l", "m",
               "n", "o", "p", "q", "r", "s", "t", "u", "v", "w", "x", "y", "z">>

LowerChar(c) ==
    IF \E i \in 1..26 : UpperCase[i] = c
    THEN LowerCase[CHOOSE i \in 1..26 : UpperCase[i] = c]
    ELSE c

\* str::to_lowercase
to_lowercase(str) == [i \in 1..Len(str) |-> LowerChar(str[i])]

DigitChars == <<"0", "1", "2", "3", "4", "5", "6", "7", "8", "9">>

\* Decimal digits of a non-negative integer ("{}").
RECURSIVE Decimal(_)
Decimal(n) == IF n < 10 THEN <<DigitChars[n + 1]>> ELSE Decimal(n \div 10) \o <<DigitChars[(n % 10) + 1]>>

\* Left padding of str to width w with piece c ("{:02}", "{:2}", "{:04}").
RECURSIVE PadLeft(_, _, _)
PadLeft(str, w, c) == IF Len(str) >= w THEN str ELSE PadLeft(<<c>> \o str, w, c)

\* The pure functions are called once each, on a fresh SystemData with the
\* image face idle.
InitCalcOnly ==
    /\ InitCalc
    /\ InitImageCommon
    /\ config = NoOption
    /\ fs = [p \in Paths |-> "missing"]
    /\ pc = [t \in Threads |-> "off"]
    /\ history = <<>>
    /\ appended = <<>>
    /\ stream = 0
    /\ lastScale = NoScale

CalcUnchanged ==
    UNCHANGED <<imageVars, history, appended, stream, lastScale,
                temp_path, temp_file, last_temp, sample_ret>>

\* ------------------------------------------------------------------------
\* Theme::from_preset
\* ------------------------------------------------------------------------

Palette(p, s, b) == [primary |-> p, secondary |-> s, background |-> b]

\* Variant of from_preset: an unknown name falls back to black on black.
from_preset_black_fallback(name) ==
    LET n == to_lowercase(name)
    IN  CASE n = <<"h", "a", "c", "k", "e", "r">> -> Palette(65280, 43520, 0)
          [] n = <<"d", "e", "f", "a", "u", "l", "t">> -> Palette(56797, 16739179, 1710638)
          [] OTHER -> Palette(0, 0, 0)

\* Theme::from_preset (colours are the RGB888 values of lines 37-72)
from_preset(name) ==
    LET n == to_lowercase(name)
    IN  CASE n = <<"h", "a", "c", "k", "e", "r">> ->
               Palette(65280, 43520, 0)
          [] n \in {<<"s", "o", "l", "a", "r", "i", "z", "e", "d", "-", "l", "i", "g", "h", "t">>,
                    <<"s", "o", "l", "a", "r", "i", "z", "e", "d", "_", "l", "i", "g", "h", "t">>} ->
               Palette(2526162, 8755456, 16643811)
          [] n \in {<<"s", "o", "l", "a", "r", "i", "z", "e", "d", "-", "d", "a", "r", "k">>,
                    <<"s", "o", "l", "a", "r", "i", "z", "e", "d", "_", "d", "a", "r", "k">>} ->
               Palette(2526162, 8755456, 11062)
          [] n = <<"n", "o", "r", "d">> ->
               Palette(8962256, 8495553, 3028032)
          [] n \in {<<"t", "o", "k", "y", "o", "n", "i", "g", "h", "t">>,
                    <<"t", "o", "k", "y", "o", "-", "n", "i", "g", "h", "t">>,
                    <<"t", "o", "k", "y", "o", "_", "n", "i", "g", "h", "t">>} ->
               Palette(8037111, 12294903, 1710886)
          [] OTHER ->
               Palette(56797, 16739179, 1710638)

\* Theme names the control layer may pass.
ThemeNames ==
    {<<>>,
     <<"d", "e", "f", "a", "u", "l", "t">>,
     <<"D", "E", "F", "A", "U", "L", "T">>,
     <<"h", "a", "c", "k", "e", "r">>,
     <<"H", "a", "c", "k", "e", "r">>,
     <<"h", "a", "c", "k", "e", "r", " ">>,
     <<"h", "a", "c", "k">>,
     <<"n", "o", "r", "d">>,
     <<"N", "O", "R", "D">>,
     <<"n", "o", "r", "d", "i", "c">>,
     <<"s", "o", "l", "a", "r", "i", "z", "e", "d">>,
     <<"s", "o", "l", "a", "r", "i", "z", "e", "d", "-", "l", "i", "g", "h", "t">>,
     <<"S", "o", "l", "a", "r", "i", "z", "e", "d", "_", "L", "i", "g", "h", "t">>,
     <<"s", "o", "l", "a", "r", "i", "z", "e", "d", " ", "l", "i", "g", "h", "t">>,
     <<"s", "o", "l", "a", "r", "i", "z", "e", "d", "-", "d", "a", "r", "k">>,
     <<"S", "O", "L", "A", "R", "I", "Z", "E", "D", "_", "D", "A", "R", "K">>,
     <<"s", "o", "l", "a", "r", "i", "z", "e", "d", "d", "a", "r", "k">>,
     <<"t", "o", "k", "y", "o", "n", "i", "g", "h", "t">>,
     <<"T", "o", "k", "y", "o", "-", "N", "i", "g", "h", "t">>,
     <<"t", "o", "k", "y", "o", "_", "n", "i", "g", "h", "t">>,
     <<"t", "o", "k", "y", "o", " ", "n", "i", "g", "h", "t">>,
     <<"t", "o", "k", "y", "o">>,
     <<"l", "i", "g", "h", "t">>,
     <<"0">>}

\* The control layer resolves a theme name.
CallFromPreset ==
    /\ call = NoCall
    /\ \E name \in ThemeNames :
         call' = [fn |-> "from_preset", name |-> name, result |-> from_preset(name)]
    /\ CalcUnchanged

\* The preset names and aliases of the theme table, in lower case.
RecognizedThemes ==
    {<<"h", "a", "c", "k", "e", "r">>,
     <<"s", "o", "l", "a", "r", "i", "z", "e", "d", "-", "l", "i", "g", "h", "t">>,
     <<"s", "o", "l", "a", "r", "i", "z", "e", "d", "_", "l", "i", "g", "h", "t">>,
     <<"s", "o", "l", "a", "r", "i", "z", "e", "d", "-", "d", "a", "r", "k">>,
     <<"s", "o", "l", "a", "r", "i", "z", "e", "d", "_", "d", "a", "r", "k">>,
     <<"n", "o", "r", "d">>,
     <<"t", "o", "k", "y", "o", "n", "i", "g", "h", "t">>,
     <<"t", "o", "k", "y", "o", "-", "n", "i", "g", "h", "t">>,
     <<"t", "o", "k", "y", "o", "_", "n", "i", "g", "h", "t">>}

\* C11: Theme::from_preset returns a palette for every name, and for every
\* name that is not a preset name or alias (case-insensitively) that palette
\* is the one of "default": primary 0x00DDDD, secondary 0xFF6B6B, background
\* 0x1A1A2E.
C11_ThemeFallback ==
    call.fn = "from_preset" =>
        /\ DOMAIN call.result = {"primary", "secondary", "background"}
        /\ to_lowercase(call.name) \notin RecognizedThemes =>
             /\ call.result = from_preset(<<"d", "e", "f", "a", "u", "l", "t">>)
             /\ call.result.primary = \hDDDD
             /\ call.result.secondary = \hFF6B6B
             /\ call.result.background = \h1A1A2E

\* An unrecognized name that is close to a preset name.
C11_Witness ==
    /\ call.fn = "from_preset"
    /\ call.name = <<"s", "o", "l", "a", "r", "i", "z", "e", "d", " ", "l", "i", "g", "h", "t">>
    /\ call.result.primary = \hDDDD

\* ------------------------------------------------------------------------
\* SystemData::format_time
\* ------------------------------------------------------------------------

TimeFormats == {"digital-24h", "digital-12h", "analogue", "binary"}
Hours == 0..23
Minutes == 0..59

format_time(format, hour, minute) ==
    CASE format = "digital-12h" ->
           LET hour_12 == IF hour = 0 THEN 12
                          ELSE IF hour < 12 THEN hour
                          ELSE IF hour = 12 THEN 12
                          ELSE hour - 12
               am_pm == IF hour < 12 THEN <<"A", "M">> ELSE <<"P", "M">>
           IN  PadLeft(Decimal(hour_12), 2, " ") \o <<":">>
                   \o PadLeft(Decimal(minute), 2, "0") \o <<" ">> \o am_pm
      [] format = "analogue" -> <<>>
      [] OTHER ->
           PadLeft(Decimal(hour), 2, "0") \o <<":">> \o PadLeft(Decimal(minute), 2, "0")

\* A face formats the clock of a snapshot.
CallFormatTime ==
    /\ call = NoCall
    /\ \E format \in TimeFormats, hour \in Hours, minute \in Minutes :
         call' = [fn |-> "format_time", format |-> format, hour |-> hour,
                  minute |-> minute, result |-> format_time(format, hour, minute)]
    /\ CalcUnchanged

\* Two digits of a number below 100.
TwoDigits(n) == <<DigitChars[(n \div 10) + 1], DigitChars[(n % 10) + 1]>>

\* C12: for every hour 0..23 and minute 0..59 the 24-hour selector yields the
\* zero-padded "HH:MM", the 12-hour selector yields "H:MM AM" or "H:MM PM"
\* with the hour (0 -> 12, 12 -> 12, others mod 12) printed without padding,
\* so that hour 13 with minute 5 is exactly "1:05 PM", and the "analogue"
\* selector yields the empty string.
C12_TimeFormat ==
    call.fn = "format_time" =>
        LET h == call.hour
            m == call.minute
            h12 == IF h % 12 = 0 THEN 12 ELSE h % 12
        IN  /\ call.format = "digital-24h" =>
                 call.result = TwoDigits(h) \o <<":">> \o TwoDigits(m)
            /\ call.format = "digital-12h" =>
                 call.result = Decimal(h12) \o <<":">> \o TwoDigits(m) \o <<" ">>
                                   \o (IF h < 12 THEN <<"A", "M">> ELSE <<"P", "M">>)
            /\ (call.format = "digital-12h" /\ h = 13 /\ m = 5) =>
                 call.result = <<"1", ":", "0", "5", " ", "P", "M">>
            /\ call.format = "analogue" => call.result = <<>>

\* Hour 13, minute 5 under the 12-hour selector: the hour is padded to two
\* columns with a space.
C12_Witness ==
    /\ call.fn = "format_time"
    /\ call.format = "digital-12h"
    /\ call.hour = 13
    /\ call.minute = 5
    /\ call.result = <<" ", "1", ":", "0", "5", " ", "P", "M">>

\* ------------------------------------------------------------------------
\* SystemInfo::days_to_ymd and the day of week of time_components
\* ------------------------------------------------------------------------

DaysBefore == 800
MaxDay == 48000
DayCounts == (0 - DaysBefore)..MaxDay

Ymd(y, m, d) == [year |-> y, month |-> m, day |-> d]

\* Variant of days_to_ymd: the year of era without the century terms (a
\* Julian calendar).
days_to_ymd_julian(days) ==
    LET z == days + 719468
        era == TruncDiv(IF z >= 0 THEN z ELSE z - 146096, 146097)
        doe == z - era * 146097
        yoe == (doe - doe \div 1460) \div 365
        y == yoe + era * 400
        doy == doe - (365 * yoe + yoe \div 4)
        mp == (5 * doy + 2) \div 153
        d == doy - (153 * mp + 2) \div 5 + 1
        m == IF mp < 10 THEN mp + 3 ELSE mp - 9
    IN  Ymd((IF m <= 2 THEN y + 1 ELSE y) % 65536, m, d)

\* SystemInfo::days_to_ymd; i64 division truncates, doe and what follows are
\* non-negative, the year is cast to u16.
days_to_ymd(days) ==
    LET z == days + 719468
        era == TruncDiv(IF z >= 0 THEN z ELSE z - 146096, 146097)
        doe == z - era * 146097
        yoe == (doe - doe \div 1460 + doe \div 36524 - doe \div 146096) \div 365
        y == yoe + era * 400
        doy == doe - (365 * yoe + yoe \div 4 - yoe \div 100)
        mp == (5 * doy + 2) \div 153
        d == doy - (153 * mp + 2) \div 5 + 1
        m == IF mp < 10 THEN mp + 3 ELSE mp - 9
    IN  Ymd((IF m <= 2 THEN y + 1 ELSE y) % 65536, m, d)

\* ((days_since_epoch + 4) % 7) as u8, for the non-negative day counts that
\* time_components derives from a u64 number of seconds.
day_of_week(days) == (days + 4) % 7

\* SystemInfo::days_to_ymd on a day count.
CallDaysToYmd ==
    /\ call = NoCall
    /\ \E days \in DayCounts :
         call' = [fn |-> "days_to_ymd", days |-> days, result |-> days_to_ymd(days)]
    /\ CalcUnchanged

\* The date part of SystemInfo::time_components, lines 51-58.
CallDateOf ==
    /\ call = NoCall
    /\ \E days \in 0..MaxDay :
         call' = [fn |-> "date_of", days |-> days, ymd |-> days_to_ymd(days),
                  result |-> day_of_week(days)]
    /\ CalcUnchanged

\* The Gregorian calendar.
LeapYear(y) == (y % 4 = 0 /\ y % 100 # 0) \/ y % 400 = 0

MonthLen(y, m) ==
    IF m = 2 THEN (IF LeapYear(y) THEN 29 ELSE 28)
    ELSE IF m \in {4, 6, 9, 11} THEN 30
    ELSE 31

NextDate(t) ==
    IF t.day < MonthLen(t.year, t.month) THEN Ymd(t.year, t.month, t.day + 1)
    ELSE IF t.month < 12 THEN Ymd(t.year, t.month + 1, 1)
    ELSE Ymd(t.year + 1, 1, 1)

\* Zeller's congruence, turned so that 0 is Sunday.
Weekday(t) ==
    LET m == IF t.month <= 2 THEN t.month + 12 ELSE t.month
        y == IF t.month <= 2 THEN t.year - 1 ELSE t.year
        K == y % 100
        J == y \div 100
        h == (t.day + (13 * (m + 1)) \div 5 + K + K \div 4 + J \div 4 + 5 * J) % 7
    IN  (h + 6) % 7

\* C13: for every day count of the range days_to_ymd gives the Gregorian
\* date of that day: day 0 is (1970, 1, 1), every result is a date of the
\* calendar, and the result for a day is the calendar successor of the result
\* for the day before (month lengths and leap years included); the day of
\* week (days + 4) mod 7 is the weekday of that date with 0 = Sunday: day 0
\* is a Thursday (4) and 2024-01-01 a Monday (1).
C13_CivilDate ==
    /\ call.fn = "days_to_ymd" =>
         /\ call.days = 0 => call.result = Ymd(1970, 1, 1)
         /\ call.result.month \in 1..12
         /\ call.result.day \in 1..MonthLen(call.result.year, call.result.month)
         /\ call.result = NextDate(days_to_ymd(call.days - 1))
    /\ call.fn = "date_of" =>
         /\ call.result = (call.days + 4) % 7
         /\ call.result = Weekday(call.ymd)
         /\ call.days = 0 => call.result = 4
         /\ call.ymd = Ymd(2024, 1, 1) => call.result = 1

\* The leap day of 2024.
C13_Witness ==
    /\ call.fn = "days_to_ymd"
    /\ call.days = 19782
    /\ call.result = Ymd(2024, 2, 29)

\* ------------------------------------------------------------------------
\* TemperatureSensor
\* ------------------------------------------------------------------------

\* Degrees Celsius are kept in thousandths: SomeTemp(45500) is Some(45.5).
SomeTemp(thousandths) == [thousandths |-> thousandths]

WhiteSpace == {" ", "\n", "\t"}

\* str::trim
RECURSIVE trim_start(_)
trim_start(s) == IF s # <<>> /\ Head(s) \in WhiteSpace THEN trim_start(Tail(s)) ELSE s

RECURSIVE trim_end(_)
trim_end(s) ==
    IF s # <<>> /\ s[Len(s)] \in WhiteSpace THEN trim_end(SubSeq(s, 1, Len(s) - 1)) ELSE s

trim(s) == trim_end(trim_start(s))

DigitValue(c) == (CHOOSE i \in 1..10 : DigitChars[i] = c) - 1

RECURSIVE DigitsValue(_)
DigitsValue(s) ==
    IF s = <<>> THEN 0 ELSE 10 * DigitsValue(SubSeq(s, 1, Len(s) - 1)) + DigitValue(s[Len(s)])

IsDigits(s) == s # <<>> /\ \A i \in 1..Len(s) : \E k \in 1..10 : DigitChars[k] = s[i]

\* str::parse::<f64> on the texts a sensor file of millidegrees holds: an
\* optional sign and decimal digits; anything else of FileTexts is no number.
parse(s) ==
    IF s # <<>> /\ Head(s) = "-" /\ IsDigits(Tail(s)) THEN [ok |-> TRUE, value |-> 0 - DigitsValue(Tail(s))]
    ELSE IF s # <<>> /\ Head(s) = "+" /\ IsDigits(Tail(s)) THEN [ok |-> TRUE, value |-> DigitsValue(Tail(s))]
    ELSE IF IsDigits(s) THEN [ok |-> TRUE, value |-> DigitsValue(s)]
    ELSE [ok |-> FALSE]

\* TemperatureSensor::read_temp; millidegrees / 1000.0 in thousandths of a
\* degree is the number of millidegrees.
read_temp(has_path, file) ==
    IF ~has_path THEN NoTemp
    ELSE IF ~file.readable THEN NoTemp
    ELSE LET millidegrees == parse(trim(file.content))
         IN  IF ~millidegrees.ok THEN NoTemp ELSE SomeTemp(millidegrees.value)

\* Variant of sample: a failed read keeps the temperature of the last success.
sample_keep_last(old, read) ==
    LET new == IF read = NoTemp THEN old ELSE read
    IN  [last_temp |-> new, ret |-> IF new = NoTemp THEN 0 ELSE new.thousandths]

\* TemperatureSensor::sample: last_temp = read_temp(); last_temp.unwrap_or(0.0)
sample(old, read) ==
    [last_temp |-> read, ret |-> IF read = NoTemp THEN 0 ELSE read.thousandths]

\* What the sensor file may hold.
FileTexts ==
    {<<>>,
     <<"\n">>,
     <<"n", "/", "a">>,
     <<"4", "5", " ", "0", "0", "0">>,
     <<"-">>,
     <<"0", "\n">>,
     <<"4", "5", "0", "0", "0", "\n">>,
     <<"4", "5", "5", "0", "0">>,
     <<" ", "3", "8", "2", "5", "0", " ", "\n">>,
     <<"-", "5", "0", "0", "0", "\n">>,
     <<"+", "7", "2", "0", "0", "0">>,
     <<"1", "0", "5", "0", "0", "0", "\n">>,
     <<"9", "9", "9">>,
     <<"2", "1", "1", "2", "5", "\n">>}

Files == {Unreadable} \cup {[readable |-> TRUE, content |-> s] : s \in FileTexts}

\* TemperatureSensor::new: a sensor file was detected or not.
InitSensor ==
    /\ call = NoCall
    /\ temp_path \in BOOLEAN
    /\ temp_file \in Files
    /\ last_temp = NoTemp
    /\ sample_ret = NotSampled
    /\ InitImageCommon
    /\ config = NoOption
    /\ fs = [p \in Paths |-> "missing"]
    /\ pc = [t \in Threads |-> "off"]
    /\ history = <<>>
    /\ appended = <<>>
    /\ stream = 0
    /\ lastScale = NoScale

SensorUnchanged == UNCHANGED <<imageVars, history, appended, stream, lastScale, call>>

\* TemperatureSensor::sample; sample_ret keeps what was returned, the file
\* that was there to read and the temperature held before.
Sample ==
    /\ LET r == sample(last_temp, read_temp(temp_path, temp_file))
       IN  /\ last_temp' = r.last_temp
           /\ sample_ret' = [value |-> r.ret, file |-> temp_file, before |-> last_temp]
    /\ UNCHANGED <<temp_path, temp_file>>
    /\ SensorUnchanged

\* The kernel updates the sensor file, or the file goes away.
SensorFileChange ==
    /\ \E f \in Files : f # temp_file /\ temp_file' = f
    /\ UNCHANGED <<temp_path, last_temp, sample_ret>>
    /\ SensorUnchanged

SensorNext == Sample \/ SensorFileChange

SpecSensor == InitSensor /\ [][SensorNext]_vars

\* The millidegree readings of FileTexts, as numbers.
Readings == {0, 45000, 45500, 38250, 0 - 5000, 72000, 105000, 999, 21125}

Spaces == {<<>>, <<" ">>, <<"\n">>, <<" ", "\n">>}

\* The text is a reading, written with or without sign, with white space
\* around it.
TextOf(s, n) ==
    \E lead \in Spaces, trail \in Spaces :
        \/ n >= 0 /\ s = lead \o Decimal(n) \o trail
        \/ n >= 0 /\ s = lead \o <<"+">> \o Decimal(n) \o trail
        \/ n < 0 /\ s = lead \o <<"-">> \o Decimal(0 - n) \o trail

\* C14: sample() returns a number in every state; after every sample(), temperature() is
\* Some(v) exactly when a sensor file was detected, was readable at that
\* sample and held a number of millidegrees, v being millidegrees / 1000 and
\* the value sample() returned; otherwise temperature() is None and sample()
\* returned 0.0, whatever temperature an earlier sample had left.
C14_SensorDefault ==
    /\ sample(last_temp, read_temp(temp_path, temp_file)).ret \in Int
    /\ sample_ret # NotSampled =>
         LET f == sample_ret.file
             succeeded == temp_path /\ f.readable /\ \E n \in Readings : TextOf(f.content, n)
         IN  IF succeeded
             THEN \E n \in Readings :
                      /\ TextOf(f.content, n)
                      /\ last_temp = SomeTemp(n)
                      /\ sample_ret.value = n
             ELSE /\ last_temp = NoTemp
                  /\ sample_ret.value = 0

\* A failed read after a successful one.
C14_Witness ==
    /\ sample_ret # NotSampled
    /\ sample_ret.before = SomeTemp(45000)
    /\ ~sample_ret.file.readable
    /\ last_temp = NoTemp
    /\ sample_ret.value = 0

\* ------------------------------------------------------------------------
\* SystemData::format_rate and format_rate_compact
\* ------------------------------------------------------------------------

RateSpan == 120
RateMarks == {1000, 10000, 1000000, 1500000, 1000000000, 2000000000}

\* Whole-number rates around the unit thresholds and the documented examples.
Rates == (0..(1000 + RateSpan)) \cup UNION {(m - RateSpan)..(m + RateSpan) : m \in RateMarks}

\* format!("{:.1}", x / unit) for a whole x: the quotient rounded to tenths.
\* A quotient halfway between two tenths prints as the f64 quotient and the
\* formatter's tie rule decide: tie_up tells which way.
FixedOne(x, unit, tie_up) ==
    LET tenth == unit \div 10
        whole == x \div unit
        t == (x % unit) \div tenth
        r == (x % unit) % tenth
        up == 2 * r > tenth \/ (2 * r = tenth /\ tie_up)
        tenths == IF up THEN t + 1 ELSE t
    IN  IF tenths = 10
        THEN Decimal(whole + 1) \o <<".", "0">>
        ELSE Decimal(whole) \o <<".", DigitChars[tenths + 1]>>

\* Variant of format_rate_compact: the thresholds belong to the smaller unit.
format_rate_compact_strict(x, tie_up) ==
    IF x > 1000000000 THEN FixedOne(x, 1000000000, tie_up) \o <<"G">>
    ELSE IF x > 1000000 THEN FixedOne(x, 1000000, tie_up) \o <<"M">>
    ELSE IF x > 1000 THEN FixedOne(x, 1000, tie_up) \o <<"K">>
    ELSE Decimal(x) \o <<"B">>

format_rate(x, tie_up) ==
    IF x >= 1000000000 THEN FixedOne(x, 1000000000, tie_up) \o <<" ", "G", "B", "/", "s">>
    ELSE IF x >= 1000000 THEN FixedOne(x, 1000000, tie_up) \o <<" ", "M", "B", "/", "s">>
    ELSE IF x >= 1000 THEN FixedOne(x, 1000, tie_up) \o <<" ", "K", "B", "/", "s">>
    ELSE Decimal(x) \o <<" ", "B", "/", "s">>

format_rate_compact(x, tie_up) ==
    IF x >= 1000000000 THEN FixedOne(x, 1000000000, tie_up) \o <<"G">>
    ELSE IF x >= 1000000 THEN FixedOne(x, 1000000, tie_up) \o <<"M">>
    ELSE IF x >= 1000 THEN FixedOne(x, 1000, tie_up) \o <<"K">>
    ELSE Decimal(x) \o <<"B">>

\* A face formats one rate in both forms.
CallFormatRate ==
    /\ call = NoCall
    /\ \E x \in Rates, tie_up \in BOOLEAN :
         call' = [fn |-> "format_rate", rate |-> x,
                  verbose |-> format_rate(x, tie_up),
                  compact |-> format_rate_compact(x, tie_up)]
    /\ CalcUnchanged

\* The unit of a rate: its letter and its size.
UnitOf(x) ==
    IF x < 1000 THEN [letter |-> "B", size |-> 1]
    ELSE IF x < 1000000 THEN [letter |-> "K", size |-> 1000]
    ELSE IF x < 1000000000 THEN [letter |-> "M", size |-> 1000000]
    ELSE [letter |-> "G", size |-> 1000000000]

\* The text is digits, a point and one digit, and the number it writes is
\* x / size to the nearest tenth.
NearestTenth(text, x, size) ==
    /\ Len(text) >= 3
    /\ text[Len(text) - 1] = "."
    /\ IsDigits(SubSeq(text, 1, Len(text) - 2))
    /\ IsDigits(<<text[Len(text)]>>)
    /\ LET tenths == 10 * DigitsValue(SubSeq(text, 1, Len(text) - 2)) + DigitValue(text[Len(text)])
           d == x - tenths * (size \div 10)
       IN  2 * d <= size \div 10 /\ 2 * d >= 0 - (size \div 10)

\* C15: for every whole-number rate both forms pick the unit by the same
\* thresholds (below 1,000 whole bytes, from 1,000 K, from 1,000,000 M, from
\* 1,000,000,000 G) and print the same number, with one decimal place from
\* 1,000 on; the verbose form ends " B/s", " KB/s", " MB/s", " GB/s" where
\* the compact form ends "B", "K", "M", "G". 1,500,000 is "1.5 MB/s", 950 is
\* "950 B/s" and 2,000,000,000 is "2.0G" in the compact form.
C15_RateBands ==
    call.fn = "format_rate" =>
        LET x == call.rate
            u == UnitOf(x)
            number == SubSeq(call.compact, 1, Len(call.compact) - 1)
        IN  /\ call.compact = number \o <<u.letter>>
            /\ call.verbose = number \o <<" ">>
                   \o (IF u.letter = "B" THEN <<>> ELSE <<u.letter>>) \o <<"B", "/", "s">>
            /\ IF x < 1000 THEN number = Decimal(x) ELSE NearestTenth(number, x, u.size)
            /\ x = 1500000 => call.verbose = <<"1", ".", "5", " ", "M", "B", "/", "s">>
            /\ x = 950 => call.verbose = <<"9", "5", "0", " ", "B", "/", "s">>
            /\ x = 2000000000 => call.compact = <<"2", ".", "0", "G">>

\* A rate just below the M threshold prints in K, rounded up to 1000.0.
C15_Witness ==
    /\ call.fn = "format_rate"
    /\ call.rate = 999999
    /\ call.verbose = <<"1", "0", "0", "0", ".", "0", " ", "K", "B", "/", "s">>
    /\ call.compact = <<"1", "0", "0", "0", ".", "0", "K">>

\* ------------------------------------------------------------------------
\* SystemData::format_date
\* ------------------------------------------------------------------------

month_names ==
    <<"January", "February", "March", "April", "May", "June", "July", "August",
      "September", "October", "November", "December">>
month_abbrev ==
    <<"Jan", "Feb", "Mar", "Apr", "May", "Jun", "Jul", "Aug", "Sep", "Oct", "Nov", "Dec">>
weekday_abbrev == <<"Sun", "Mon", "Tue", "Wed", "Thu", "Fri", "Sat">>

\* u8::saturating_sub
saturating_sub(a, b) == IF a >= b THEN a - b ELSE 0

\* Variant of month_idx: the index is not capped at the last month.
month_idx_uncapped(month) == saturating_sub(month, 1)

\* line 160
month_idx(month) == Min2(saturating_sub(month, 1), 11)

\* line 161
weekday_idx(dow) == Min2(dow, 6)

NoDate == [kind |-> "none"]
SomeDate(text) == [kind |-> "some", text |-> text]
IndexPanic == [kind |-> "panic"]

\* table[idx] of a Rust array (indices from 0): the entry, or a panic when
\* the index is out of bounds.
InBounds(table, idx) == idx \in 0..(Len(table) - 1)

format_date(format, year, month, day, dow) ==
    CASE format = "hidden" -> NoDate
      [] format = "iso" ->
           SomeDate(PadLeft(Decimal(year), 4, "0") \o <<"-">> \o PadLeft(Decimal(month), 2, "0")
                        \o <<"-">> \o PadLeft(Decimal(day), 2, "0"))
      [] format = "us" ->
           SomeDate(PadLeft(Decimal(month), 2, "0") \o <<"/">> \o PadLeft(Decimal(day), 2, "0")
                        \o <<"/">> \o PadLeft(Decimal(year), 4, "0"))
      [] format = "eu" ->
           SomeDate(PadLeft(Decimal(day), 2, "0") \o <<"/">> \o PadLeft(Decimal(month), 2, "0")
                        \o <<"/">> \o PadLeft(Decimal(year), 4, "0"))
      [] format = "short" ->
           IF ~InBounds(month_abbrev, month_idx(month)) THEN IndexPanic
           ELSE SomeDate(<<month_abbrev[month_idx(month) + 1], " ">> \o Decimal(day))
      [] format = "long" ->
           IF ~InBounds(month_names, month_idx(month)) THEN IndexPanic
           ELSE SomeDate(<<month_names[month_idx(month) + 1], " ">> \o Decimal(day)
                             \o <<",", " ">> \o Decimal(year))
      [] format = "weekday" ->
           IF ~InBounds(weekday_abbrev, weekday_idx(dow)) \/ ~InBounds(month_abbrev, month_idx(month))
           THEN IndexPanic
           ELSE SomeDate(<<weekday_abbrev[weekday_idx(dow) + 1], ",", " ",
                           month_abbrev[month_idx(month) + 1], " ">> \o Decimal(day))
      [] OTHER -> NoDate

DateFormats == {"hidden", "iso", "us", "eu", "short", "long", "weekday", "", "ISO", "none"}
Bytes == 0..255
MonthSamples == {0, 1, 2, 11, 12, 13, 255}
DowSamples == {0, 1, 5, 6, 7, 255}
DaySamples == {9, 31}
YearSamples == {2024}

\* A face formats the date of a snapshot whose month and day_of_week fields
\* hold any u8.
CallFormatDate ==
    /\ call = NoCall
    /\ \E format \in DateFormats, year \in YearSamples, day \in DaySamples,
          month \in Bytes, dow \in Bytes :
         /\ month \in MonthSamples \/ dow \in DowSamples
         /\ call' = [fn |-> "format_date", format |-> format, year |-> year, month |-> month,
                     day |-> day, dow |-> dow,
                     result |-> format_date(format, year, month, day, dow)]
    /\ CalcUnchanged

\* The month and weekday entries the claim names for a month and a day of week.
MonthEntry(table, month) ==
    IF month <= 1 THEN table[1] ELSE IF month >= 12 THEN table[12] ELSE table[month]

WeekdayEntry(dow) == IF dow >= 6 THEN "Sat" ELSE weekday_abbrev[dow + 1]

\* C18: for every month 0..255 and day_of_week 0..255 format_date indexes its
\* tables in bounds: month 0 and 1 give January, a month from 12 on gives
\* December, a day_of_week from 6 on gives Saturday; "hidden" and every
\* unrecognized selector give no date.
C18_DateClamping ==
    call.fn = "format_date" =>
        /\ call.result # IndexPanic
        /\ InBounds(month_names, month_idx(call.month))
        /\ InBounds(weekday_abbrev, weekday_idx(call.dow))
        /\ call.month <= 1 => month_names[month_idx(call.month) + 1] = "January"
        /\ call.month >= 12 => month_names[month_idx(call.month) + 1] = "December"
        /\ call.dow >= 6 => weekday_abbrev[weekday_idx(call.dow) + 1] = "Sat"
        /\ call.format = "short" =>
             call.result = SomeDate(<<MonthEntry(month_abbrev, call.month), " ">> \o Decimal(call.day))
        /\ call.format = "long" =>
             call.result = SomeDate(<<MonthEntry(month_names, call.month), " ">> \o Decimal(call.day)
                                        \o <<",", " ">> \o Decimal(call.year))
        /\ call.format = "weekday" =>
             call.result = SomeDate(<<WeekdayEntry(call.dow), ",", " ",
                                      MonthEntry(month_abbrev, call.month), " ">> \o Decimal(call.day))
        /\ call.format \in {"iso", "us", "eu"} => call.result.kind = "some"
        /\ call.format \notin {"iso", "us", "eu", "short", "long", "weekday"} => call.result = NoDate

\* Month 0 and day_of_week 255 under the "weekday" selector.
C18_Witness ==
    /\ call.fn = "format_date"
    /\ call.format = "weekday"
    /\ call.month = 0
    /\ call.dow = 255
    /\ call.day = 9
    /\ call.result = SomeDate(<<"Sat", ",", " ", "Jan", " ", "9">>)

\* ------------------------------------------------------------------------
\* The face registry: create_face and available_faces
\* ------------------------------------------------------------------------

NoFace == [none |-> TRUE]
SomeFace(type) == [face |-> type]

\* create_face
create_face(name) ==
    LET n == to_lowercase(name)
    IN  CASE n = <<"a", "s", "c", "i", "i">> -> SomeFace("AsciiFace")
          [] n = <<"p", "r", "o", "f", "e", "s", "s", "i", "o", "n", "a", "l">> ->
               SomeFace("ProfessionalFace")
          [] OTHER -> NoFace

\* available_faces
available_faces ==
    <<<<"a", "s", "c", "i", "i">>,
      <<"p", "r", "o", "f", "e", "s", "s", "i", "o", "n", "a", "l">>>>

\* ImageFace::name
ImageFaceName == <<"i", "m", "a", "g", "e">>

\* Face names the scheduler may ask for.
FaceNames ==
    {<<>>,
     <<"a", "s", "c", "i", "i">>,
     <<"A", "S", "C", "I", "I">>,
     <<"A", "s", "c", "i", "i">>,
     <<"a", "s", "c", "i">>,
     <<"a", "s", "c", "i", "i", " ">>,
     <<"p", "r", "o", "f", "e", "s", "s", "i", "o", "n", "a", "l">>,
     <<"P", "r", "o", "f", "e", "s", "s", "i", "o", "n", "a", "l">>,
     <<"p", "r", "o">>,
     <<"i", "m", "a", "g", "e">>,
     <<"I", "m", "a", "g", "e">>,
     <<"g", "r", "a", "p", "h">>,
     <<"d", "e", "f", "a", "u", "l", "t">>}

\* The scheduler looks a face up and lists the faces on offer.
CallCreateFace ==
    /\ call = NoCall
    /\ \E name \in FaceNames :
         call' = [fn |-> "create_face", name |-> name, result |-> create_face(name),
                  listed |-> {available_faces[i] : i \in 1..Len(available_faces)}]
    /\ CalcUnchanged

\* C19: create_face(name) returns a face exactly for the names that, in lower
\* case, available_faces() lists, and that list holds the name of every Face
\* implementation, the image face's "image" included.
C19_RegistryComplete ==
    call.fn = "create_face" =>
        /\ call.result # NoFace <=> to_lowercase(call.name) \in call.listed
        /\ ImageFaceName \in call.listed
        /\ to_lowercase(call.name) = ImageFaceName => call.result # NoFace

\* The image face is asked for by its own name and is not on offer.
C19_Witness ==
    /\ call.fn = "create_face"
    /\ call.name = ImageFaceName
    /\ call.result = NoFace
    /\ ImageFaceName \notin call.listed

\* ------------------------------------------------------------------------
\* SystemInfo::time_components on u64 seconds
\* ------------------------------------------------------------------------

\* A u64 is written as five decimal limbs of four digits, most significant
\* first, so that every intermediate value of the arithmetic below stays
\* under 2^31.
Wide(n) == <<0, 0, n \div 100000000, (n \div 10000) % 10000, n % 10000>>

\* 2^64 = 18446744073709551616
TwoTo64 == <<1844, 6744, 737, 955, 1616>>

WideLess(a, b) ==
    \E i \in 1..5 : a[i] < b[i] /\ \A j \in 1..(i - 1) : a[j] = b[j]

WideAdd(a, b) ==
    LET s5 == a[5] + b[5]
        s4 == a[4] + b[4] + s5 \div 10000
        s3 == a[3] + b[3] + s4 \div 10000
        s2 == a[2] + b[2] + s3 \div 10000
        s1 == a[1] + b[1] + s2 \div 10000
    IN  <<s1, s2 % 10000, s3 % 10000, s4 % 10000, s5 % 10000>>

\* a - b for a >= b
WideSub(a, b) ==
    LET d5 == a[5] - b[5]
        d4 == a[4] - b[4] - (IF d5 < 0 THEN 1 ELSE 0)
        d3 == a[3] - b[3] - (IF d4 < 0 THEN 1 ELSE 0)
        d2 == a[2] - b[2] - (IF d3 < 0 THEN 1 ELSE 0)
        d1 == a[1] - b[1] - (IF d2 < 0 THEN 1 ELSE 0)
    IN  <<d1, d2 % 10000, d3 % 10000, d4 % 10000, d5 % 10000>>

\* a / d and a % d for a divisor below 200,000
WideDivMod(a, d) ==
    LET t1 == a[1]
        t2 == (t1 % d) * 10000 + a[2]
        t3 == (t2 % d) * 10000 + a[3]
        t4 == (t3 % d) * 10000 + a[4]
        t5 == (t4 % d) * 10000 + a[5]
    IN  [quot |-> <<t1 \div d, t2 \div d, t3 \div d, t4 \div d, t5 \div d>>, rem |-> t5 % d]

\* u64::wrapping_add, u64::wrapping_sub
wrapping_add(a, b) ==
    LET s == WideAdd(a, b) IN IF WideLess(s, TwoTo64) THEN s ELSE WideSub(s, TwoTo64)

wrapping_sub(a, b) ==
    IF WideLess(a, b) THEN WideSub(WideAdd(a, TwoTo64), b) ELSE WideSub(a, b)

\* An i64 offset: its sign and its magnitude.
Offset(seconds) ==
    [neg |-> seconds < 0, mag |-> Wide(IF seconds < 0 THEN 0 - seconds ELSE seconds)]

\* lines 41-45
local_secs_of(secs, offset) ==
    IF ~offset.neg THEN wrapping_add(secs, offset.mag) ELSE wrapping_sub(secs, offset.mag)

\* Variant of hours_of: the seconds of the day are not taken first.
hours_of_no_day(local_secs) == WideDivMod(WideDivMod(local_secs, 3600).quot, 256).rem

\* line 48: ((local_secs % 86400) / 3600) as u8
hours_of(local_secs) == ((WideDivMod(local_secs, 86400).rem) \div 3600) % 256

\* line 49: ((local_secs % 3600) / 60) as u8
minutes_of(local_secs) == ((WideDivMod(local_secs, 3600).rem) \div 60) % 256

\* line 52: (local_secs / 86400) as i64; the quotient is below 2^63
days_since_epoch_of(local_secs) == WideDivMod(local_secs, 86400).quot

\* line 55: ((days_since_epoch + 4) % 7) as u8 on a non-negative i64
day_of_week_wide(days) == (WideDivMod(WideAdd(days, Wide(4)), 7).rem) % 256

\* SystemInfo::days_to_ymd on the non-negative day count of a u64 number of
\* seconds: z >= 0, the casts to u8 and u16 keep the low bits.
days_to_ymd_wide(days) ==
    LET z == WideAdd(days, Wide(719468))
        eras == WideDivMod(z, 146097)
        doe == eras.rem
        yoe == (doe - doe \div 1460 + doe \div 36524 - doe \div 146096) \div 365
        y == yoe + (WideDivMod(eras.quot, 16384).rem) * 400
        doy == doe - (365 * yoe + yoe \div 4 - yoe \div 100)
        mp == (5 * doy + 2) \div 153
        d == (doy - (153 * mp + 2) \div 5 + 1) % 256
        m == (IF mp < 10 THEN mp + 3 ELSE mp - 9) % 256
    IN  Ymd((IF m <= 2 THEN y + 1 ELSE y) % 65536, m, d)

\* SystemInfo::time_components for a clock reading and a timezone offset
time_components(secs, offset) ==
    LET local_secs == local_secs_of(secs, offset)
        days == days_since_epoch_of(local_secs)
        ymd == days_to_ymd_wide(days)
    IN  [hour |-> hours_of(local_secs), minute |-> minutes_of(local_secs),
         day |-> ymd.day, month |-> ymd.month, year |-> ymd.year,
         day_of_week |-> day_of_week_wide(days), local_secs |-> local_secs]

MaxTzHours == 30

\* Clock readings: SystemTime::now() since the epoch in whole seconds, from a
\* clock that was never set up to the largest u64.
ClockReadings ==
    {Wide(s) : s \in {0, 1, 59, 60, 3599, 3600, 17999, 18000, 18001, 28800, 50400,
                      86399, 86400, 951782400, 1704067199, 1704067200, 2147483647}}
        \cup {<<0, 0, 41, 244, 4800>>, <<0, 0, 2534, 230, 799>>,
              <<922, 3372, 368, 5477, 5808>>, <<1844, 6744, 737, 955, 1615>>}

\* timezone_offset: the /etc/timezone table, and hours * -3600 for a TZ of
\* the form UTC<hours> (hours of any size parse).
OffsetSeconds ==
    {0, 0 - 18000, 0 - 28800, 3600, 32400, 19800}
        \cup {h * (0 - 3600) : h \in (0 - MaxTzHours)..MaxTzHours}
        \cup {h * (0 - 3600) : h \in {0 - 500000, 0 - 8760, 8760, 500000}}

\* The telemetry aggregator reads the clock.
CallTimeComponents ==
    /\ call = NoCall
    /\ \E secs \in ClockReadings, seconds \in OffsetSeconds :
         call' = [fn |-> "time_components", secs |-> secs, offset |-> Offset(seconds),
                  result |-> time_components(secs, Offset(seconds))]
    /\ CalcUnchanged

\* The value of a wide number below 2^31.
IsNarrow(a) == a[1] = 0 /\ a[2] = 0 /\ a[3] <= 20
Narrow(a) == a[3] * 100000000 + a[4] * 10000 + a[5]

\* The subtraction of the offset wrapped around 2^64.
Wrapped(c) == c.offset.neg /\ WideLess(c.secs, c.offset.mag)

\* C21: for every clock reading and every timezone offset, a negative offset
\* larger than the clock reading included (the subtraction then wraps to
\* 2^64 - (offset - secs)), time_components returns an hour in 0..23, a minute
\* in 0..59, a day in 1..31, a month in 1..12 and a day_of_week in 0..6; for
\* local seconds below 2^31 these are the time of day and the calendar date
\* of that second.
C21_ComponentRanges ==
    call.fn = "time_components" =>
        LET r == call.result
        IN  /\ r.hour \in 0..23
            /\ r.minute \in 0..59
            /\ r.day \in 1..31
            /\ r.month \in 1..12
            /\ r.day_of_week \in 0..6
            /\ \A i \in 1..5 : r.local_secs[i] \in 0..9999
            /\ WideLess(r.local_secs, TwoTo64)
            /\ Wrapped(call) =>
                 WideAdd(r.local_secs, WideSub(call.offset.mag, call.secs)) = TwoTo64
            /\ IsNarrow(r.local_secs) =>
                 LET s == Narrow(r.local_secs)
                 IN  /\ r.hour * 3600 + r.minute * 60 <= s % 86400
                     /\ s % 86400 < r.hour * 3600 + r.minute * 60 + 60
                     /\ Ymd(r.year, r.month, r.day) = days_to_ymd(s \div 86400)
                     /\ r.day_of_week = Weekday(Ymd(r.year, r.month, r.day))

\* A clock that was never set, five hours west of UTC: the local seconds wrap
\* to 2^64 - 18000.
C21_Witness ==
    /\ call.fn = "time_components"
    /\ call.secs = Wide(0)
    /\ call.offset = Offset(0 - 18000)
    /\ Wrapped(call)
    /\ call.result.local_secs = <<1844, 6744, 737, 953, 3616>>
    /\ call.result.hour = 2
    /\ call.result.minute = 0
    /\ call.result.day = 9
    /\ call.result.month = 11
    /\ call.result.day_of_week = 4

\* ------------------------------------------------------------------------
\* Properties of ImageFace::render
\* ------------------------------------------------------------------------

\* Thread t has read its path and is inside render.
Working(t) == pc[t] \in {"placeholder", "lock", "check", "load", "store", "draw", "ret"}

\* The last render of thread t has returned.
Done(t) == pc[t] = "idle" /\ canvas[t] # <<>>

\* The preceding render worked with p and left the cache holding an entry for p.
PrevCached(p) ==
    /\ prev # NoRender
    /\ prev.path = p
    /\ prev.cache # NoEntry
    /\ prev.cache.path = p

\* C1: cache hit. When the preceding render worked with a non-empty path P and
\* left P cached, the render that follows with the path still P never calls
\* load_image, leaves the cache entry (path and bitmap) as it was, and blits
\* exactly that cached bitmap.
C1_CacheHit ==
    \A t \in Threads :
        (/\ Working(t) \/ Done(t)
         /\ path[t] \in Paths
         /\ PrevCached(path[t]))
        => /\ loads[t] = <<>>
           /\ pc[t] \notin {"load", "store"}
           /\ cache = prev.cache
           /\ Done(t) =>
                canvas[t] = <<OpClear, BlitOp(prev.cache.pixmap, CanvasDims[1], CanvasDims[2])>>

\* A finished cache-hit render whose file has meanwhile changed or vanished.
C1_Witness ==
    /\ Done(1)
    /\ path[1] \in Paths
    /\ PrevCached(path[1])
    /\ prev.loads # <<>>
    /\ fs[path[1]] # prev.cache.pixmap.img

\* C2: path change. When the lock is taken with an entry for P in the cache and
\* the render works with another non-empty path Q, the render makes exactly one
\* load_image call, for Q; if it succeeds the cache holds (Q, the bitmap loaded)
\* when the render returns, and the render after it, still with Q, loads nothing.
C2_PathChange ==
    /\ \A t \in Threads :
        (/\ Done(t)
         /\ path[t] \in Paths
         /\ atLock[t] # NoEntry
         /\ atLock[t].path # path[t])
        => /\ Len(loads[t]) = 1
           /\ loads[t][1].path = path[t]
           /\ loads[t][1].ok =>
                /\ loaded[t] # NoPixmap
                /\ cache = [path |-> path[t], pixmap |-> loaded[t]]
    /\ \A t \in Threads :
        (/\ Working(t) \/ Done(t)
         /\ prev # NoRender
         /\ prev.atLock # NoEntry
         /\ prev.path \in Paths
         /\ prev.atLock.path # prev.path
         /\ prev.loads = <<[path |-> prev.path, ok |-> TRUE]>>
         /\ path[t] = prev.path)
        => loads[t] = <<>>

\* A render that replaced the entry for P by one for Q, followed by a finished
\* render with Q.
C2_Witness ==
    /\ Done(1)
    /\ prev # NoRender
    /\ prev.atLock # NoEntry
    /\ prev.path \in Paths
    /\ prev.atLock.path # prev.path
    /\ prev.loads = <<[path |-> prev.path, ok |-> TRUE]>>
    /\ path[1] = prev.path
    /\ cache.path = path[1]

\* The load of this render failed.
LoadFailed(t) == loads[t] # <<>> /\ ~loads[t][Len(loads[t])].ok

\* C3: decode failure. A render whose load of its non-empty path failed draws
\* the error message with the attempted path, draws no bitmap, and leaves the
\* cache empty when it returns, whatever the cache held before.
C3_DecodeFailure ==
    \A t \in Threads :
        (Done(t) /\ path[t] \in Paths /\ LoadFailed(t))
        => /\ canvas[t] = <<OpClear>> \o ErrorOps(path[t])
           /\ \A i \in 1..Len(canvas[t]) : canvas[t][i].op # "pixmap"
           /\ cache = NoEntry

\* A failed load in a render that found a valid entry for another path.
C3_Witness ==
    /\ Done(1)
    /\ path[1] \in Paths
    /\ LoadFailed(1)
    /\ atLock[1] # NoEntry
    /\ atLock[1].path # path[1]

\* C4 as claimed: for every value of the configured path, a render that made
\* no reload attempt found a matching entry, and no entry for another path
\* outlives a completed render.
C4_AnyPath ==
    \A t \in Threads :
        Done(t) =>
            /\ cache = NoEntry \/ cache.path = path[t]
            /\ loads[t] = <<>> => (cache # NoEntry /\ cache.path = path[t])

\* C4 (amended): for every non-empty path read by the render, when the cache
\* under the lock holds no entry or an entry for another path, exactly one
\* reload attempt for that path is made before the render returns, and when the
\* render returns the cache is empty or holds an entry for that path. A render
\* with an empty or absent path makes no reload attempt and leaves the cache
\* as it is.
C4_CacheValidity ==
    \A t \in Threads :
        Done(t) =>
            IF path[t] \in Paths
            THEN /\ IF atLock[t] = NoEntry \/ atLock[t].path # path[t]
                    THEN Len(loads[t]) = 1 /\ loads[t][1].path = path[t]
                    ELSE loads[t] = <<>>
                 /\ cache = NoEntry \/ cache.path = path[t]
            ELSE /\ loads[t] = <<>>
                 /\ prev # NoRender => cache = prev.cache

\* A finished render that found an entry for another path and replaced it.
C4_Witness ==
    /\ Done(1)
    /\ path[1] \in Paths
    /\ atLock[1] # NoEntry
    /\ atLock[1].path # path[1]
    /\ cache # NoEntry
    /\ cache.path = path[1]

\* C5: retry. After a render whose load of P failed, the next render with the
\* path still P makes exactly one new load attempt for P; when that attempt
\* succeeds the render blits the loaded bitmap and the cache holds (P, bitmap).
C5_Retry ==
    \A t \in Threads :
        (/\ pc[t] \in {"draw", "ret"} \/ Done(t)
         /\ prev # NoRender
         /\ prev.path \in Paths
         /\ prev.loads = <<[path |-> prev.path, ok |-> FALSE]>>
         /\ path[t] = prev.path)
        => /\ Len(loads[t]) = 1
           /\ loads[t][1].path = path[t]
           /\ loads[t][1].ok =>
                /\ cache = [path |-> path[t], pixmap |-> loaded[t]]
                /\ Done(t) =>
                     canvas[t] = <<OpClear, BlitOp(loaded[t], CanvasDims[1], CanvasDims[2])>>

\* The file became loadable: a failed render followed by a successful one.
C5_Witness ==
    /\ Done(1)
    /\ prev # NoRender
    /\ prev.path \in Paths
    /\ prev.loads = <<[path |-> prev.path, ok |-> FALSE]>>
    /\ path[1] = prev.path
    /\ loads[1] = <<[path |-> path[1], ok |-> TRUE]>>

\* C6 as claimed: the cache lock is not held while load_image runs.
C6_ReleasedBeforeLoad ==
    \A t \in Threads : pc[t] = "load" => lock # t

\* C6 (amended): render holds the cache lock from taking it on line 106 until
\* it returns, the load_image call included; a thread waiting for the lock
\* stays blocked for the whole decode.
C6_LockHeldAcrossLoad ==
    \A t \in Threads :
        /\ pc[t] \in {"check", "load", "store", "draw", "ret"} => lock = t
        /\ pc[t] \in {"idle", "getopt", "placeholder", "lock", "off"} => lock # t

\* One thread is about to decode while the other waits for the lock.
C6_Witness ==
    /\ pc[1] = "load"
    /\ lock = 1
    /\ pc[2] = "lock"

\* C7: stable configuration. Every load_image call of a render is for the path
\* it read at its start, the entry it caches is keyed by that path and the
\* error text names that path, whatever the control surface has written to the
\* option since.
C7_StableConfig ==
    \A t \in Threads :
        (Working(t) \/ Done(t)) =>
            /\ \A i \in 1..Len(loads[t]) : loads[t][i].path = path[t]
            /\ (pc[t] \in {"draw", "ret"} /\ cache # NoEntry) => cache.path = path[t]
            /\ (Done(t) /\ path[t] \in Paths /\ LoadFailed(t)) =>
                   canvas[t][Len(canvas[t])] = OpText(10, 30, path[t])

\* The option was rewritten to another path while a render that loaded its
\* own path was in progress.
C7_Witness ==
    /\ pc[1] = "ret"
    /\ path[1] \in Paths
    /\ config \in Paths
    /\ config # path[1]
    /\ loads[1] # <<>>
    /\ cache # NoEntry

\* C8: full repaint. On every path through render canvas.clear() is the first
\* canvas operation and the only clear; a finished render has drawn after it
\* exactly one of: the two-line placeholder (empty path), the centred bitmap,
\* the two-line error message (non-empty path).
C8_FullRepaint ==
    \A t \in Threads :
        /\ canvas[t] # <<>> =>
             /\ canvas[t][1] = OpClear
             /\ \A i \in 2..Len(canvas[t]) : canvas[t][i] # OpClear
        /\ Done(t) =>
             IF path[t] = ""
             THEN canvas[t] = <<OpClear>> \o PlaceholderOps
             ELSE \/ canvas[t] = <<OpClear>> \o ErrorOps(path[t])
                  \/ /\ Len(canvas[t]) = 2
                     /\ canvas[t][2].op = "pixmap"
                     /\ canvas[t][2] = BlitOp(canvas[t][2].pixmap, CanvasDims[1], CanvasDims[2])

\* A finished render that blitted a bitmap right after one that drew the error.
C8_Witness ==
    /\ Done(1)
    /\ Len(canvas[1]) = 2
    /\ canvas[1][2].op = "pixmap"
    /\ prev # NoRender
    /\ prev.canvas = <<OpClear>> \o ErrorOps(prev.path)

\* The render of thread t read an absent or empty path option.
EmptyPathRender(t) == pc[t] = "placeholder" \/ (Done(t) /\ path[t] = "")

\* C16: a render that reads an absent or empty path option draws only the two
\* placeholder lines and returns without taking the cache lock, without a
\* load attempt and with the cache as the preceding render left it; an entry
\* kept that way is reused without a reload by the next render if its path is
\* configured again.
C16_EmptyPath ==
    \A t \in Threads :
        /\ EmptyPathRender(t) =>
             /\ lock # t
             /\ atLock[t] = NoEntry
             /\ loads[t] = <<>>
             /\ loaded[t] = NoPixmap
             /\ cache = (IF prev = NoRender THEN NoEntry ELSE prev.cache)
             /\ Done(t) => canvas[t] = <<OpClear>> \o PlaceholderOps
        /\ (/\ Working(t) \/ Done(t)
            /\ path[t] \in Paths
            /\ prev # NoRender
            /\ prev.path = ""
            /\ prev.cache # NoEntry
            /\ prev.cache.path = path[t])
           => /\ loads[t] = <<>>
              /\ cache = prev.cache
              /\ Done(t) =>
                   canvas[t] = <<OpClear, BlitOp(prev.cache.pixmap, CanvasDims[1], CanvasDims[2])>>

\* An entry survived a render with an empty path and was blitted, without a
\* reload, by the render after it.
C16_Witness ==
    /\ Done(1)
    /\ path[1] \in Paths
    /\ prev # NoRender
    /\ prev.path = ""
    /\ prev.canvas = <<OpClear>> \o PlaceholderOps
    /\ prev.cache # NoEntry
    /\ prev.cache.path = path[1]
    /\ loads[1] = <<>>

\* Thread t is between taking the cache lock and returning.
InCritical(t) == pc[t] \in {"check", "load", "store", "draw", "ret"}

\* C20: renders of one ImageFace running on several threads. The part of a
\* render from the cache check to the blit runs with the lock held, alone and
\* on a cache nobody else changes: what the render finds in the cache is what
\* it found when it took the lock, and what it leaves is that entry (a hit on
\* its own path) or the result of its single load of its own path. A cache
\* entry always pairs a path with a bitmap decoded from that path, a finished
\* render has blitted a bitmap decoded from its own path or drawn the error
\* text naming its own path, the lock is free whenever no render is between
\* lock and return, and a render waiting for the lock waits for a holder that
\* is on its way to returning.
C20_ConcurrentRenders ==
    /\ \A t \in Threads :
         /\ InCritical(t) => lock = t /\ \A u \in Threads \ {t} : ~InCritical(u)
         /\ pc[t] \in {"check", "load", "store"} => cache = atLock[t]
         /\ pc[t] \in {"check", "load"} => loads[t] = <<>>
         /\ pc[t] \in {"draw", "ret"} =>
              IF loads[t] = <<>>
              THEN cache = atLock[t] /\ cache # NoEntry /\ cache.path = path[t]
              ELSE /\ loads[t] = <<[path |-> path[t], ok |-> loaded[t] # NoPixmap]>>
                   /\ cache = (IF loaded[t] # NoPixmap
                               THEN [path |-> path[t], pixmap |-> loaded[t]]
                               ELSE NoEntry)
         /\ (Done(t) /\ path[t] \in Paths) =>
              \/ canvas[t] = <<OpClear>> \o ErrorOps(path[t])
              \/ \E d \in decoded :
                   /\ d.path = path[t]
                   /\ canvas[t] = <<OpClear, BlitOp(d.pixmap, CanvasDims[1], CanvasDims[2])>>
         /\ pc[t] = "lock" => lock = 0 \/ (lock \in Threads \ {t} /\ InCritical(lock))
    /\ cache # NoEntry => [path |-> cache.path, pixmap |-> cache.pixmap] \in decoded
    /\ (\A t \in Threads : ~InCritical(t)) => lock = 0

\* Two finished renders with different paths, the second of which waited for
\* the lock while the first was decoding; the files hold different images.
C20_Witness ==
    /\ Done(1)
    /\ Done(2)
    /\ path[1] = "a"
    /\ path[2] = "b"
    /\ lock = 0
    /\ loads[1] # <<>>
    /\ loads[2] # <<>>
    /\ loaded[1] # NoPixmap
    /\ loaded[2] # NoPixmap
    /\ loaded[1] # loaded[2]
    /\ atLock[2] = [path |-> "a", pixmap |-> loaded[1]]
    /\ canvas[1] = <<OpClear, BlitOp(loaded[1], CanvasDims[1], CanvasDims[2])>>
    /\ canvas[2] = <<OpClear, BlitOp(loaded[2], CanvasDims[1], CanvasDims[2])>>

\* Every pure function of the telemetry and face layer, called once.
CalcNext ==
    \/ CallFromPreset
    \/ CallFormatTime
    \/ CallDaysToYmd
    \/ CallDateOf
    \/ CallFormatRate
    \/ CallFormatDate
    \/ CallCreateFace
    \/ CallTimeComponents

SpecCalc == InitCalcOnly /\ [][CalcNext]_vars

TypeOK ==
    /\ config \in ConfigValues
    /\ lock \in {0} \cup Threads
    /\ cache = NoEntry \/ cache.path \in Paths
====
